---- MODULE Spec2Model ----
(***************************************************************************)
(* BreastNet++ notebook (src/BreastNetPP_GPU_Friendly.ipynb): the          *)
(* train / evaluate functions, the first training cell, the resumable      *)
(* training cell and test_model, as a state machine over the kernel's      *)
(* globals and the files of save_dir.                                      *)
(*                                                                         *)
(* Abstractions.  A tensor of parameters is a natural number naming its    *)
(* value: every optimizer.step() produces a value never seen before        *)
(* (nextVer).  The network's evaluation-mode output on sample x under      *)
(* parameters p is the deterministic function Prob(p, x), in tenths.       *)
(* A ratio a / b computed by the code is kept exact as [num, den].         *)
(***************************************************************************)
EXTENDS Integers, Sequences, FiniteSets, TLC

\* ------------------------------------------------------------- bounds
\* num_epochs of the training cells (10 in the notebook), scaled down.
NumEpochs == 3
\* len(train_loader): batches of one training pass.
TrainBatches == 2
\* len(val_dataset) and the DataLoader batch_size (8 in the notebook).
ValLen == 3
BatchSize == 2
\* len(test_dataset).
TestLen == 2
\* how many cells are run, one after the other, in one kernel session.
MaxRuns == 3
\* how many optimizer steps one kernel session may take.
MaxVer == 10

VARIABLES
  params,        \* model.state_dict(): parameter group -> value
  opt,           \* optimizer.state_dict(): Adam's state, a value
  grads,         \* .grad of the parameters: "none" or "computed"
  training,      \* model.training
  nextVer,       \* the next fresh parameter value
  files,         \* save_dir: file name -> content, for the files that exist
  valLabels,     \* val_dataset.labels
  cell,          \* the running cell: "none", "first", "resume", "test"
  pc,            \* the position inside the running cell
  runs,          \* cells started so far
  err,           \* the exception that ended the last cell, or "none"
  resume_checkpoint_path,
  loaded_checkpoint,  \* checkpoint = torch.load(resume_checkpoint_path)
  start_epoch, best_val_acc,
  epoch, epoch_iter,  \* the for loop's variable and range iterator
  train_loss, val_loss, val_acc,
  batch,         \* batches the running loader loop has finished
  running_loss, loss, outputs, correct, total,  \* locals of train / evaluate
  test_checkpoint, all_preds, all_labels,       \* locals of test_model
  report,        \* what test_model printed last
  trained,       \* history: epochs (1-based) whose training pass this cell began
  writes,        \* history: files this cell wrote, in order
  evaluated,     \* history: the epochs whose validation pass returned
  resumed,       \* history: this cell took the resume branch
  gate_pc,       \* CBAM under test: the position in __init__ / forward
  gate_args,     \* CBAM(channels, reduction, kernel_size): the arguments
  cbam,          \* the constructed module: its parameters and the conv's padding
  gate_input,    \* the feature map forward is called on
  gate_x,        \* forward's x: the input, then the channel-gated map, then the output
  ca, sa_input, sa,  \* locals of CBAM.forward
  gate_ret,      \* what forward returned
  gate_err,      \* the exception CBAM raised, or "none"
  ds_pc,         \* CustomDataset under test: the position in __init__
  ds_root,       \* the directory tree at root_dir
  ds_image_paths, ds_labels,  \* self.image_paths, self.labels
  ds_label,      \* __init__'s loop variable label
  ds_todo,       \* the entries os.listdir returned that the inner loop has not taken
  ds_item,       \* what the last __getitem__ returned
  ds_err,        \* the exception CustomDataset raised last, or "none"
  notebook       \* the notebook that is run top to bottom, or "none": cells run by hand

model_vars == <<params, opt, grads, training, nextVer>>
cell_vars  == <<resume_checkpoint_path, loaded_checkpoint, start_epoch, best_val_acc>>
loop_vars  == <<epoch, epoch_iter>>
res_vars   == <<train_loss, val_loss, val_acc>>
fn_vars    == <<batch, running_loss, loss, outputs, correct, total>>
test_vars  == <<test_checkpoint, all_preds, all_labels>>
gate_vars  == <<gate_pc, gate_args, cbam, gate_input, gate_x, ca, sa_input, sa,
                gate_ret, gate_err>>
data_vars  == <<ds_pc, ds_root, ds_image_paths, ds_labels, ds_label, ds_todo, ds_item,
                ds_err>>
env_vars   == <<valLabels, report, gate_vars, data_vars, notebook>>
hist_vars  == <<trained, writes, evaluated, resumed>>
vars == <<params, opt, grads, training, nextVer, files, valLabels, cell, pc, runs,
          err, resume_checkpoint_path, loaded_checkpoint, start_epoch, best_val_acc,
          epoch, epoch_iter, train_loss, val_loss, val_acc, batch, running_loss,
          loss, outputs, correct, total, test_checkpoint, all_preds, all_labels,
          report, trained, writes, evaluated, resumed, gate_vars, data_vars, notebook>>

\* ------------------------------------------------------------- values
ParamKeys == {"backbone", "cbam", "head"}

\* A model all of whose parameter groups hold value v.
Uniform(v) == [k \in ParamKeys |-> v]

NoPath == <<"none", 0>>
EpochFile(n) == <<"breastnetpp_epoch", n>>
BestFile == <<"breastnetpp_best_model", 0>>
NoCheckpoint == [none |-> TRUE]
NoReport == [none |-> TRUE]

Ratio(n, d) == [num |-> n, den |-> d]
GT(a, b) == a.num * b.den > b.num * a.den
SameRatio(a, b) == a.num * b.den = b.num * a.den

Min(a, b) == IF a < b THEN a ELSE b
Abs(a) == IF a < 0 THEN 0 - a ELSE a

\* len(loader) for a dataset of n samples: ceil(n / batch_size).
NumBatches(n) == (n + BatchSize - 1) \div BatchSize
\* The sample indices (1-based) of batch b (0-based) of a dataset of n samples.
BatchLo(b) == b * BatchSize + 1
BatchHi(b, n) == Min((b + 1) * BatchSize, n)

\* The network's evaluation-mode output on sample x, in tenths (0..10).
Prob(p, x) == ((p["head"] + 1) * (x + 2) + p["cbam"] + 2 * p["backbone"]) % 11

\* A threshold that takes a probability of exactly 0.5 for the positive class.
PredAtLeastHalf(o) == IF o >= 5 THEN 1 ELSE 0

\* preds = (outputs > 0.5).float()
Pred(o) == IF o > 5 THEN 1 ELSE 0

\* test_dataset.labels
TestLabel(i) == i % 2

\* state_dict(): the mapping from parameter group to its value.
StateDict(p) == [k \in ParamKeys |-> p[k]]

\* A load that leaves the classification head as it is.
LoadStateDictPartial(cur, sd) ==
  [k \in DOMAIN cur |-> IF k = "head" THEN cur[k] ELSE sd[k]]

\* load_state_dict(sd) (strict): every group takes the value sd holds for it.
LoadStateDict(cur, sd) == [k \in DOMAIN cur |-> sd[k]]

\* A resume that restores the parameters and leaves the optimizer as it is.
KeepOptimizerState(cur, sd) == cur

\* optimizer.load_state_dict(sd): the optimizer takes the state sd.
LoadOptimizerState(cur, sd) == sd

\* A checkpoint record that leaves the validation metrics out.
CheckpointRecordNoMetrics(ep, p, o, vl, va) ==
  [epoch |-> ep + 1,
   model_state_dict |-> StateDict(p),
   optimizer_state_dict |-> o]

\* The dict literal of the training cells: the per-epoch checkpoint record.
CheckpointRecord(ep, p, o, vl, va) ==
  [epoch |-> ep + 1,
   model_state_dict |-> StateDict(p),
   optimizer_state_dict |-> o,
   val_loss |-> vl,
   val_accuracy |-> va]

\* torch.save(obj, name): the file name holds obj afterwards.
Save(fs, name, obj) ==
  [n \in DOMAIN fs \cup {name} |-> IF n = name THEN obj ELSE fs[n]]

\* outputs = model(imgs) in evaluation mode, for batch b of a dataset of n samples.
BatchOutputs(p, b, n, first) ==
  [j \in 1..(BatchHi(b, n) - BatchLo(b) + 1) |-> Prob(p, first + BatchLo(b) + j - 1)]

BatchLabelsOf(labels, b) ==
  [j \in 1..(BatchHi(b, Len(labels)) - BatchLo(b) + 1) |-> labels[BatchLo(b) + j - 1]]

RECURSIVE SumAbsErr(_, _, _)
SumAbsErr(outs, labs, j) ==
  IF j > Len(outs) THEN 0
  ELSE Abs(10 * labs[j] - outs[j]) + SumAbsErr(outs, labs, j + 1)

\* criterion(outputs, labels): the batch's loss, as its absolute error in tenths.
Criterion(outs, labs) == SumAbsErr(outs, labs, 1)

\* (preds == labels).sum()
NumEqual(outs, labs) == Cardinality({j \in 1..Len(outs) : Pred(outs[j]) = labs[j]})

\* criterion(outputs, labels) on training batch b under parameters p.
TrainLoss(p, b) == (p["head"] + 2 * b) % 3

\* A resume condition without the os.path.exists test.
CanResumeUnchecked(path, fs) == path # NoPath

\* if resume_checkpoint_path and os.path.exists(resume_checkpoint_path)
CanResume(path, fs) == path # NoPath /\ path \in DOMAIN fs

\* A resume that takes the recorded epoch for the index of the last epoch trained.
ResumeStartEpochRepeats(ckpt) == ckpt.epoch - 1

\* start_epoch = checkpoint['epoch']
ResumeStartEpoch(ckpt) == ckpt.epoch

\* best_val_acc = checkpoint.get('val_accuracy', 0.0)
ResumeBestAcc(ckpt) ==
  IF "val_accuracy" \in DOMAIN ckpt THEN ckpt.val_accuracy ELSE Ratio(0, 1)

\* A comparison that also takes a tie for an improvement.
IsNewBestOrTie(acc, best) == ~GT(best, acc)

\* if val_acc > best_val_acc
IsNewBest(acc, best) == GT(acc, best)

\* An epoch body that writes the checkpoint before the validation pass.
AfterStageSaveFirst(c, stage) ==
  CASE stage = "train" -> "save"
    [] stage = "save"  -> "e_start"
    [] stage = "eval"  -> IF c = "resume" THEN "best" ELSE "loop"
    [] stage = "best"  -> "loop"

\* An epoch body that saves the best model right after the training pass.
AfterStageBestFirst(c, stage) ==
  CASE stage = "train" -> IF c = "resume" THEN "best" ELSE "e_start"
    [] stage = "best"  -> "e_start"
    [] stage = "eval"  -> "save"
    [] stage = "save"  -> "loop"

\* The statement order of an epoch's body: which stage follows the stage that ended.
AfterStage(c, stage) ==
  CASE stage = "train" -> "e_start"
    [] stage = "eval"  -> "save"
    [] stage = "save"  -> IF c = "resume" THEN "best" ELSE "loop"
    [] stage = "best"  -> "loop"

\* The paths a cell can be given: None, a per-epoch checkpoint, the best-model file.
ResumePaths == {NoPath} \cup {EpochFile(n) : n \in 1..NumEpochs}
TestPaths == {EpochFile(n) : n \in 1..NumEpochs} \cup {BestFile}

\* ------------------------------------------------------------- initial state
NoRoot == [none |-> TRUE]
NoItem == [none |-> TRUE]

\* No CustomDataset is being constructed on its own.
DataIdle ==
  /\ ds_pc = "none" /\ ds_root = NoRoot
  /\ ds_image_paths = <<>> /\ ds_labels = <<>>
  /\ ds_label = 0 /\ ds_todo = {} /\ ds_item = NoItem /\ ds_err = "none"

\* A tensor is its shape (batch, channels, height, width) and its elements.
NoTensor == [shape |-> <<0, 0, 0, 0>>, at |-> <<>>]
NoModule == [none |-> TRUE]
NoArgs == [channels |-> 0, reduction |-> 0, kernel_size |-> 0]

\* No CBAM is being constructed or called on its own.
GateIdle ==
  /\ gate_pc = "none" /\ gate_args = NoArgs /\ cbam = NoModule
  /\ gate_input = NoTensor /\ gate_x = NoTensor /\ ca = NoTensor
  /\ sa_input = NoTensor /\ sa = NoTensor /\ gate_ret = NoTensor
  /\ gate_err = "none"

ValDatasets == {[i \in 1..ValLen |-> i % 2], [i \in 1..ValLen |-> 0]}

Init ==
  /\ params = Uniform(0) /\ opt = 0 /\ grads = "none" /\ training = TRUE
  /\ nextVer = 1
  /\ files = <<>>
  /\ valLabels \in ValDatasets
  /\ cell = "none" /\ pc = "idle" /\ runs = 0 /\ err = "none"
  /\ resume_checkpoint_path = NoPath /\ loaded_checkpoint = NoCheckpoint
  /\ start_epoch = 0 /\ best_val_acc = Ratio(0, 1)
  /\ epoch = 0 /\ epoch_iter = 0
  /\ train_loss = Ratio(0, 1) /\ val_loss = Ratio(0, 1) /\ val_acc = Ratio(0, 1)
  /\ batch = 0 /\ running_loss = 0 /\ loss = 0 /\ outputs = <<>>
  /\ correct = 0 /\ total = 0
  /\ test_checkpoint = NoCheckpoint /\ all_preds = <<>> /\ all_labels = <<>>
  /\ report = NoReport
  /\ trained = <<>> /\ writes = <<>> /\ evaluated = {} /\ resumed = FALSE
  /\ GateIdle /\ DataIdle
  /\ notebook = "none"

\* The locals of train, evaluate and test_model die with the call.
DropLocals ==
  /\ batch' = 0 /\ running_loss' = 0 /\ loss' = 0 /\ outputs' = <<>>
  /\ correct' = 0 /\ total' = 0
  /\ test_checkpoint' = NoCheckpoint /\ all_preds' = <<>> /\ all_labels' = <<>>

\* An exception nobody catches ends the cell; the kernel's globals and the files stay.
Raise(e) ==
  /\ pc' = "idle" /\ cell' = "none" /\ err' = e
  /\ DropLocals
\* ------------------------------------------------------------- train (lines 191-204)
\* A train that does not switch the model to training mode.
TrainStartKeepsMode ==
  /\ pc = "t_start"
  /\ running_loss' = 0 /\ batch' = 0
  /\ trained' = Append(trained, epoch + 1)
  /\ pc' = "t_fetch"
  /\ UNCHANGED <<model_vars, files, env_vars, cell, runs, err,
                 cell_vars, loop_vars, res_vars, loss, outputs, correct, total,
                 test_vars, writes, evaluated, resumed>>

\* model.train(); running_loss = 0; the loader loop begins.
TrainStart ==
  /\ pc = "t_start"
  /\ training' = TRUE
  /\ running_loss' = 0 /\ batch' = 0
  /\ trained' = Append(trained, epoch + 1)
  /\ pc' = "t_fetch"
  /\ UNCHANGED <<params, opt, grads, nextVer, files, env_vars, cell, runs, err,
                 cell_vars, loop_vars, res_vars, loss, outputs, correct, total,
                 test_vars, writes, evaluated, resumed>>

\* for imgs, labels in loop: the next batch is read (CustomDataset.__getitem__), or
\* the loader is exhausted and train returns running_loss / len(loader).
TrainFetch ==
  /\ pc = "t_fetch"
  /\ batch < TrainBatches
  /\ pc' = "t_zero_grad"
  /\ UNCHANGED <<model_vars, files, env_vars, cell, runs, err, cell_vars, loop_vars,
                 res_vars, fn_vars, test_vars, hist_vars>>

\* A loader loop that catches the failure, drops the batch and goes on.
TrainFetchSkipsSample ==
  /\ pc = "t_fetch"
  /\ batch < TrainBatches
  /\ err' = "FetchError"
  /\ batch' = batch + 1
  /\ UNCHANGED <<model_vars, files, env_vars, cell, pc, runs, cell_vars, loop_vars,
                 res_vars, running_loss, loss, outputs, correct, total, test_vars,
                 hist_vars>>

\* cv2.imread / cvtColor fail on a missing or corrupt image: nothing catches it.
TrainFetchFails ==
  /\ pc = "t_fetch"
  /\ batch < TrainBatches
  /\ Raise("FetchError")
  /\ UNCHANGED <<model_vars, files, env_vars, runs, cell_vars, loop_vars, res_vars,
                 hist_vars>>

TrainZeroGrad ==
  /\ pc = "t_zero_grad"
  /\ grads' = "none"
  /\ pc' = "t_forward"
  /\ UNCHANGED <<params, opt, training, nextVer, files, env_vars, cell, runs, err,
                 cell_vars, loop_vars, res_vars, fn_vars, test_vars, hist_vars>>

\* outputs = model(imgs), in the mode the model is in.
TrainForward ==
  /\ pc = "t_forward"
  /\ outputs' = <<Prob(params, batch)>>
  /\ pc' = "t_loss"
  /\ UNCHANGED <<model_vars, files, env_vars, cell, runs, err, cell_vars, loop_vars,
                 res_vars, batch, running_loss, loss, correct, total, test_vars,
                 hist_vars>>

TrainLossStep ==
  /\ pc = "t_loss"
  /\ loss' = TrainLoss(params, batch)
  /\ pc' = "t_backward"
  /\ UNCHANGED <<model_vars, files, env_vars, cell, runs, err, cell_vars, loop_vars,
                 res_vars, batch, running_loss, outputs, correct, total, test_vars,
                 hist_vars>>

\* A backward pass that applies the update itself, before optimizer.step() does.
TrainBackwardUpdates ==
  /\ pc = "t_backward"
  /\ nextVer <= MaxVer
  /\ grads' = "computed"
  /\ params' = Uniform(nextVer) /\ opt' = nextVer /\ nextVer' = nextVer + 1
  /\ pc' = "t_step"
  /\ UNCHANGED <<training, files, env_vars, cell, runs, err,
                 cell_vars, loop_vars, res_vars, fn_vars, test_vars, hist_vars>>

\* loss.backward(): the gradients of the batch's loss.
TrainBackward ==
  /\ pc = "t_backward"
  /\ grads' = "computed"
  /\ pc' = "t_step"
  /\ UNCHANGED <<params, opt, training, nextVer, files, env_vars, cell, runs, err,
                 cell_vars, loop_vars, res_vars, fn_vars, test_vars, hist_vars>>

\* optimizer.step(): new parameter values and new optimizer state.
OptimizerStep ==
  /\ pc = "t_step"
  /\ nextVer <= MaxVer
  /\ params' = Uniform(nextVer)
  /\ opt' = nextVer
  /\ nextVer' = nextVer + 1
  /\ pc' = "t_accum"
  /\ UNCHANGED <<grads, training, files, env_vars, cell, runs, err, cell_vars,
                 loop_vars, res_vars, fn_vars, test_vars, hist_vars>>

\* A loader loop that passes over the batch after the one it has just finished.
TrainAccumulateSkipsBatch ==
  /\ pc = "t_accum"
  /\ running_loss' = running_loss + loss
  /\ batch' = batch + 2
  /\ outputs' = <<>> /\ loss' = 0
  /\ pc' = "t_fetch"
  /\ UNCHANGED <<model_vars, files, env_vars, cell, runs, err, cell_vars, loop_vars,
                 res_vars, correct, total, test_vars, hist_vars>>

\* running_loss += loss.item(); the batch is done.
TrainAccumulate ==
  /\ pc = "t_accum"
  /\ running_loss' = running_loss + loss
  /\ batch' = batch + 1
  /\ outputs' = <<>> /\ loss' = 0
  /\ pc' = "t_fetch"
  /\ UNCHANGED <<model_vars, files, env_vars, cell, runs, err, cell_vars, loop_vars,
                 res_vars, correct, total, test_vars, hist_vars>>

\* return running_loss / len(loader)
TrainReturn ==
  /\ pc = "t_fetch"
  /\ batch >= TrainBatches
  /\ IF TrainBatches = 0
       THEN /\ Raise("ZeroDivisionError")
            /\ UNCHANGED res_vars
       ELSE /\ train_loss' = Ratio(running_loss, TrainBatches)
            /\ pc' = AfterStage(cell, "train")
            /\ DropLocals
            /\ UNCHANGED <<cell, err, val_loss, val_acc>>
  /\ UNCHANGED <<model_vars, files, env_vars, runs, cell_vars, loop_vars, hist_vars>>
\* ------------------------------------------------------------- evaluate (lines 206-222)
\* model.eval(); total, correct = 0, 0; running_loss = 0
EvalStart ==
  /\ pc = "e_start"
  /\ training' = FALSE
  /\ total' = 0 /\ correct' = 0 /\ running_loss' = 0 /\ batch' = 0
  /\ pc' = "e_fetch"
  /\ UNCHANGED <<params, opt, grads, nextVer, files, env_vars, cell, runs, err,
                 cell_vars, loop_vars, res_vars, loss, outputs, test_vars, hist_vars>>

EvalFetch ==
  /\ pc = "e_fetch"
  /\ batch < NumBatches(Len(valLabels))
  /\ pc' = "e_forward"
  /\ UNCHANGED <<model_vars, files, env_vars, cell, runs, err, cell_vars, loop_vars,
                 res_vars, fn_vars, test_vars, hist_vars>>

EvalFetchFails ==
  /\ pc = "e_fetch"
  /\ batch < NumBatches(Len(valLabels))
  /\ Raise("FetchError")
  /\ UNCHANGED <<model_vars, files, env_vars, runs, cell_vars, loop_vars, res_vars,
                 hist_vars>>

\* outputs = model(imgs), under torch.no_grad()
EvalForward ==
  /\ pc = "e_forward"
  /\ outputs' = BatchOutputs(params, batch, Len(valLabels), 0)
  /\ pc' = "e_update"
  /\ UNCHANGED <<model_vars, files, env_vars, cell, runs, err, cell_vars, loop_vars,
                 res_vars, batch, running_loss, loss, correct, total, test_vars,
                 hist_vars>>

\* An evaluation batch that also takes an optimizer step.
EvalUpdateSteps ==
  /\ pc = "e_update"
  /\ nextVer <= MaxVer
  /\ LET labs == BatchLabelsOf(valLabels, batch)
     IN /\ running_loss' = running_loss + Criterion(outputs, labs)
        /\ correct' = correct + NumEqual(outputs, labs)
        /\ total' = total + Len(labs)
  /\ params' = Uniform(nextVer) /\ opt' = nextVer /\ nextVer' = nextVer + 1
  /\ batch' = batch + 1
  /\ outputs' = <<>>
  /\ pc' = "e_fetch"
  /\ UNCHANGED <<grads, training, files, env_vars, cell, runs, err, cell_vars,
                 loop_vars, res_vars, loss, test_vars, hist_vars>>

\* loss; running_loss += loss.item(); preds; correct += ...; total += labels.size(0)
EvalUpdate ==
  /\ pc = "e_update"
  /\ LET labs == BatchLabelsOf(valLabels, batch)
     IN /\ running_loss' = running_loss + Criterion(outputs, labs)
        /\ correct' = correct + NumEqual(outputs, labs)
        /\ total' = total + Len(labs)
  /\ batch' = batch + 1
  /\ outputs' = <<>>
  /\ pc' = "e_fetch"
  /\ UNCHANGED <<model_vars, files, env_vars, cell, runs, err, cell_vars, loop_vars,
                 res_vars, loss, test_vars, hist_vars>>

\* accuracy = correct / total; return running_loss / len(loader), accuracy
EvalReturn ==
  /\ pc = "e_fetch"
  /\ batch >= NumBatches(Len(valLabels))
  /\ IF total = 0
       THEN /\ Raise("ZeroDivisionError")
            /\ UNCHANGED <<res_vars, evaluated>>
       ELSE /\ val_acc' = Ratio(correct, total)
            /\ val_loss' = Ratio(running_loss, NumBatches(Len(valLabels)))
            /\ evaluated' = evaluated \cup
                 {[epoch |-> epoch + 1, params |-> params, opt |-> opt,
                   acc |-> Ratio(correct, total)]}
            /\ pc' = AfterStage(cell, "eval")
            /\ DropLocals
            /\ UNCHANGED <<cell, err, train_loss>>
  /\ UNCHANGED <<model_vars, files, env_vars, runs, cell_vars, loop_vars, trained,
                 writes, resumed>>

\* ------------------------------------------------------------- the epoch loop
\* for epoch in range(start, num_epochs): the next epoch's body begins.
LoopNext ==
  /\ pc = "loop"
  /\ epoch_iter < NumEpochs
  /\ epoch' = epoch_iter
  /\ epoch_iter' = epoch_iter + 1
  /\ pc' = "t_start"
  /\ UNCHANGED <<model_vars, files, env_vars, cell, runs, err, cell_vars, res_vars,
                 fn_vars, test_vars, hist_vars>>

\* The range is exhausted: the cell ends.
LoopDone ==
  /\ pc = "loop"
  /\ epoch_iter >= NumEpochs
  /\ pc' = "idle" /\ cell' = "none"
  /\ UNCHANGED <<model_vars, files, env_vars, runs, err, cell_vars, loop_vars,
                 res_vars, fn_vars, test_vars, hist_vars>>

\* checkpoint = {...}; torch.save(checkpoint, f"{save_dir}/breastnetpp_epoch_{epoch+1}.pth")
SaveCheckpoint ==
  /\ pc = "save"
  /\ files' = Save(files, EpochFile(epoch + 1),
                   CheckpointRecord(epoch, params, opt, val_loss, val_acc))
  /\ writes' = Append(writes, EpochFile(epoch + 1))
  /\ pc' = AfterStage(cell, "save")
  /\ UNCHANGED <<model_vars, env_vars, cell, runs, err, cell_vars, loop_vars,
                 res_vars, fn_vars, test_vars, trained, evaluated, resumed>>

\* if val_acc > best_val_acc: best_val_acc = val_acc; torch.save(model.state_dict(), best)
SaveBestModel ==
  /\ pc = "best"
  /\ IF IsNewBest(val_acc, best_val_acc)
       THEN /\ best_val_acc' = val_acc
            /\ files' = Save(files, BestFile, StateDict(params))
            /\ writes' = Append(writes, BestFile)
       ELSE UNCHANGED <<best_val_acc, files, writes>>
  /\ pc' = AfterStage(cell, "best")
  /\ UNCHANGED <<model_vars, env_vars, cell, runs, err, resume_checkpoint_path,
                 loaded_checkpoint, start_epoch, loop_vars, res_vars, fn_vars,
                 test_vars, trained, evaluated, resumed>>

\* ------------------------------------------------------------- the cells
\* The first training cell (lines 279-299): for epoch in range(num_epochs).
StartFirstCell ==
  /\ pc = "idle" /\ runs < MaxRuns
  /\ cell' = "first" /\ runs' = runs + 1 /\ err' = "none"
  /\ epoch_iter' = 0
  /\ trained' = <<>> /\ writes' = <<>> /\ resumed' = FALSE
  /\ pc' = "loop"
  /\ UNCHANGED <<model_vars, files, env_vars, cell_vars, epoch, res_vars, fn_vars,
                 test_vars, evaluated>>

\* The cell that sets resume_checkpoint_path (line 309) and the head of the resumable
\* cell (lines 339-344): start_epoch = 0; best_val_acc = 0.0
StartResumeCell ==
  /\ pc = "idle" /\ runs < MaxRuns
  /\ \E path \in ResumePaths : resume_checkpoint_path' = path
  /\ cell' = "resume" /\ runs' = runs + 1 /\ err' = "none"
  /\ start_epoch' = 0 /\ best_val_acc' = Ratio(0, 1)
  /\ trained' = <<>> /\ writes' = <<>> /\ resumed' = FALSE
  /\ pc' = "r_branch"
  /\ UNCHANGED <<model_vars, files, env_vars, loaded_checkpoint, loop_vars, res_vars,
                 fn_vars, test_vars, evaluated>>

\* Resume from checkpoint if provided (lines 347-355).
ResumeBranch ==
  /\ pc = "r_branch"
  /\ IF CanResume(resume_checkpoint_path, files)
       THEN IF resume_checkpoint_path \notin DOMAIN files
              THEN /\ Raise("FileNotFoundError")
                   /\ UNCHANGED <<params, opt, loaded_checkpoint, start_epoch,
                                  best_val_acc, resumed>>
              ELSE LET ck == files[resume_checkpoint_path]
                   IN /\ loaded_checkpoint' = ck
                      /\ params' = LoadStateDict(params, ck.model_state_dict)
                      /\ opt' = LoadOptimizerState(opt, ck.optimizer_state_dict)
                      /\ resumed' = TRUE
                      /\ start_epoch' = ResumeStartEpoch(ck)
                      /\ best_val_acc' = ResumeBestAcc(ck)
                      /\ pc' = "r_for"
                      /\ UNCHANGED <<cell, err, fn_vars, test_vars>>
       ELSE /\ pc' = "r_for"
            /\ UNCHANGED <<params, opt, loaded_checkpoint, start_epoch, best_val_acc,
                           cell, err, fn_vars, test_vars, resumed>>
  /\ UNCHANGED <<grads, training, nextVer, files, env_vars, runs,
                 resume_checkpoint_path, loop_vars, res_vars, trained, writes,
                 evaluated>>

\* A loop that ignores start_epoch: for epoch in range(num_epochs).
ResumeLoopEnterFromZero ==
  /\ pc = "r_for"
  /\ epoch_iter' = 0
  /\ pc' = "loop"
  /\ UNCHANGED <<model_vars, files, env_vars, cell, runs, err, cell_vars, epoch,
                 res_vars, fn_vars, test_vars, hist_vars>>

\* num_epochs = 10; for epoch in range(start_epoch, num_epochs)
ResumeLoopEnter ==
  /\ pc = "r_for"
  /\ epoch_iter' = start_epoch
  /\ pc' = "loop"
  /\ UNCHANGED <<model_vars, files, env_vars, cell, runs, err, cell_vars, epoch,
                 res_vars, fn_vars, test_vars, hist_vars>>
\* ------------------------------------------------------------- test_model (lines 396-433)
\* test_model(model, test_loader, path): checkpoint = torch.load(checkpoint_path)
TestLoad ==
  /\ pc = "idle" /\ runs < MaxRuns
  /\ runs' = runs + 1
  /\ trained' = <<>> /\ writes' = <<>> /\ resumed' = FALSE
  /\ \E path \in TestPaths :
       IF path \notin DOMAIN files
         THEN Raise("FileNotFoundError")
         ELSE /\ test_checkpoint' = files[path]
              /\ cell' = "test" /\ err' = "none"
              /\ pc' = "x_load_state"
              /\ UNCHANGED <<fn_vars, all_preds, all_labels>>
  /\ UNCHANGED <<model_vars, files, env_vars, cell_vars, loop_vars, res_vars, evaluated>>

\* A test_model that takes a record without a model-state entry for the parameter
\* mapping itself: load_state_dict(checkpoint.get('model_state_dict', checkpoint)).
TestLoadStateOrBare ==
  /\ pc = "x_load_state"
  /\ params' = LoadStateDict(params,
                  IF "model_state_dict" \in DOMAIN test_checkpoint
                    THEN test_checkpoint.model_state_dict
                    ELSE test_checkpoint)
  /\ pc' = "x_eval"
  /\ UNCHANGED <<cell, err, fn_vars, test_vars>>
  /\ UNCHANGED <<opt, grads, training, nextVer, files, env_vars, runs, cell_vars,
                 loop_vars, res_vars, hist_vars>>

\* model.load_state_dict(checkpoint['model_state_dict'])
TestLoadState ==
  /\ pc = "x_load_state"
  /\ IF "model_state_dict" \notin DOMAIN test_checkpoint
       THEN /\ Raise("KeyError")
            /\ UNCHANGED params
       ELSE /\ params' = LoadStateDict(params, test_checkpoint.model_state_dict)
            /\ pc' = "x_eval"
            /\ UNCHANGED <<cell, err, fn_vars, test_vars>>
  /\ UNCHANGED <<opt, grads, training, nextVer, files, env_vars, runs, cell_vars,
                 loop_vars, res_vars, hist_vars>>

\* model.to(device); model.eval(); all_preds = []; all_labels = []
TestEval ==
  /\ pc = "x_eval"
  /\ training' = FALSE
  /\ all_preds' = <<>> /\ all_labels' = <<>> /\ batch' = 0
  /\ pc' = "x_fetch"
  /\ UNCHANGED <<params, opt, grads, nextVer, files, env_vars, cell, runs, err,
                 cell_vars, loop_vars, res_vars, running_loss, loss, outputs, correct,
                 total, test_checkpoint, hist_vars>>

TestFetch ==
  /\ pc = "x_fetch"
  /\ batch < NumBatches(TestLen)
  /\ pc' = "x_forward"
  /\ UNCHANGED <<model_vars, files, env_vars, cell, runs, err, cell_vars, loop_vars,
                 res_vars, fn_vars, test_vars, hist_vars>>

TestFetchFails ==
  /\ pc = "x_fetch"
  /\ batch < NumBatches(TestLen)
  /\ Raise("FetchError")
  /\ UNCHANGED <<model_vars, files, env_vars, runs, cell_vars, loop_vars, res_vars,
                 hist_vars>>

\* outputs = model(imgs)
TestForward ==
  /\ pc = "x_forward"
  /\ outputs' = BatchOutputs(params, batch, TestLen, ValLen)
  /\ pc' = "x_collect"
  /\ UNCHANGED <<model_vars, files, env_vars, cell, runs, err, cell_vars, loop_vars,
                 res_vars, batch, running_loss, loss, correct, total, test_vars,
                 hist_vars>>

\* preds = (outputs > 0.5).float(); all_preds.extend(preds); all_labels.extend(labels)
TestCollect ==
  /\ pc = "x_collect"
  /\ all_preds' = all_preds \o [j \in 1..Len(outputs) |-> Pred(outputs[j])]
  /\ all_labels' = all_labels \o
       [j \in 1..Len(outputs) |-> TestLabel(BatchLo(batch) + j - 1)]
  /\ batch' = batch + 1
  /\ outputs' = <<>>
  /\ pc' = "x_fetch"
  /\ UNCHANGED <<model_vars, files, env_vars, cell, runs, err, cell_vars, loop_vars,
                 res_vars, running_loss, loss, correct, total, test_checkpoint,
                 hist_vars>>

\* acc = accuracy_score(y_true, y_pred); ... the report is printed.
TestReport ==
  /\ pc = "x_fetch"
  /\ batch >= NumBatches(TestLen)
  /\ report' = [acc |-> Ratio(Cardinality({j \in 1..Len(all_preds) :
                                              all_preds[j] = all_labels[j]}),
                              Len(all_preds))]
  /\ pc' = "idle" /\ cell' = "none"
  /\ DropLocals
  /\ UNCHANGED <<model_vars, files, valLabels, gate_vars, data_vars, notebook, runs,
                 err, cell_vars, loop_vars, res_vars, hist_vars>>

\* ------------------------------------------------------------- specification
Next ==
  \/ StartFirstCell \/ StartResumeCell \/ ResumeBranch \/ ResumeLoopEnter
  \/ LoopNext \/ LoopDone
  \/ TrainStart \/ TrainFetch \/ TrainFetchFails \/ TrainZeroGrad \/ TrainForward
  \/ TrainLossStep \/ TrainBackward \/ OptimizerStep \/ TrainAccumulate \/ TrainReturn
  \/ EvalStart \/ EvalFetch \/ EvalFetchFails \/ EvalForward \/ EvalUpdate \/ EvalReturn
  \/ SaveCheckpoint \/ SaveBestModel
  \/ TestLoad \/ TestLoadState \/ TestEval \/ TestFetch \/ TestFetchFails
  \/ TestForward \/ TestCollect \/ TestReport

Spec == Init /\ [][Next]_vars

\* evaluate on its own: one call, on any parameters and any validation set.
RECURSIVE LabelSeqs(_)
LabelSeqs(n) ==
  IF n = 0 THEN {<<>>}
  ELSE LabelSeqs(n - 1) \cup [1..n -> {0, 1}]

InitEval ==
  /\ \E v \in 0..MaxVer : params = Uniform(v) /\ opt = v /\ nextVer = v + 1
  /\ grads = "none" /\ training = TRUE
  /\ files = <<>>
  /\ valLabels \in LabelSeqs(ValLen)
  /\ cell = "evaluate" /\ pc = "e_start" /\ runs = 0 /\ err = "none"
  /\ resume_checkpoint_path = NoPath /\ loaded_checkpoint = NoCheckpoint
  /\ start_epoch = 0 /\ best_val_acc = Ratio(0, 1)
  /\ epoch = 0 /\ epoch_iter = 0
  /\ train_loss = Ratio(0, 1) /\ val_loss = Ratio(0, 1) /\ val_acc = Ratio(0, 1)
  /\ batch = 0 /\ running_loss = 0 /\ loss = 0 /\ outputs = <<>>
  /\ correct = 0 /\ total = 0
  /\ test_checkpoint = NoCheckpoint /\ all_preds = <<>> /\ all_labels = <<>>
  /\ report = NoReport
  /\ trained = <<>> /\ writes = <<>> /\ evaluated = {} /\ resumed = FALSE
  /\ GateIdle /\ DataIdle
  /\ notebook = "none"

NextEval ==
  \/ EvalStart \/ EvalFetch \/ EvalFetchFails \/ EvalForward \/ EvalUpdate
  \/ EvalReturn

SpecEval == InitEval /\ [][NextEval]_vars
\* ------------------------------------------------------------- properties
Max(a, b) == IF a > b THEN a ELSE b
Last(q) == q[Len(q)]
IsEpochFile(name) == name[1] = "breastnetpp_epoch"

\* C1: a resumable run that resumed from a checkpoint recording epoch N (N = 0 for a
\* fresh start) trains the epochs N+1, N+2, ... in order, none skipped or repeated,
\* up to num_epochs when it runs to its end (none when N >= num_epochs), and the
\* checkpoint it writes after an epoch records that epoch's number.
C1_ResumeNumbering ==
  (cell = "resume" /\ pc # "r_branch") =>
    LET N == IF resumed THEN loaded_checkpoint.epoch ELSE 0
    IN /\ \A i \in 1..Len(trained) : trained[i] = N + i
       /\ Len(trained) <= Max(NumEpochs - N, 0)
       /\ (pc = "loop" /\ epoch_iter >= NumEpochs) =>
            Len(trained) = Max(NumEpochs - N, 0)
       /\ (pc = "best") =>
            /\ EpochFile(Last(trained)) \in DOMAIN files
            /\ files[EpochFile(Last(trained))].epoch = Last(trained)
            /\ SelectSeq(writes, IsEpochFile) =
                 [i \in 1..Len(trained) |-> EpochFile(trained[i])]

\* A resumed run has trained its last epochs and reaches the end of the range.
C1_Witness ==
  /\ cell = "resume" /\ resumed /\ pc = "loop" /\ epoch_iter >= NumEpochs
  /\ Len(trained) >= 2
  /\ loaded_checkpoint.epoch = NumEpochs - Len(trained)

\* C2: the step after an epoch's checkpoint writes the best-model file, and raises the
\* tracked best accuracy, exactly when the epoch's validation accuracy is strictly
\* greater than the tracked best; otherwise it leaves both unchanged.
C2_BestTracking ==
  [][(pc = "best") =>
       IF GT(val_acc, best_val_acc)
         THEN /\ BestFile \in DOMAIN files'
              /\ files'[BestFile] = [k \in ParamKeys |-> params[k]]
              /\ writes' = Append(writes, BestFile)
              /\ best_val_acc' = val_acc
         ELSE /\ files' = files
              /\ writes' = writes
              /\ best_val_acc' = best_val_acc]_vars

\* An epoch ties the best accuracy while a best-model file of another epoch exists.
C2_Witness ==
  /\ pc = "loop" /\ cell = "resume" /\ Len(trained) >= 2
  /\ SameRatio(val_acc, best_val_acc) /\ val_acc.num > 0
  /\ BestFile \in DOMAIN files
  /\ files[BestFile] # [k \in ParamKeys |-> params[k]]
  /\ Last(writes) # BestFile

\* C3: whenever the best-model file exists it holds the parameters the model had when
\* the validation pass of some epoch returned (after that epoch's training pass).
C3_BestFileConsistent ==
  (BestFile \in DOMAIN files) =>
    \E e \in evaluated : files[BestFile] = [k \in ParamKeys |-> e.params[k]]

\* A run was aborted by a failing fetch after later training had moved the parameters
\* away from the best-model file's.
C3_Witness ==
  /\ BestFile \in DOMAIN files
  /\ err = "FetchError" /\ pc = "idle"
  /\ files[BestFile] # [k \in ParamKeys |-> params[k]]
  /\ \A e \in evaluated : e.params # params
\* The validation accuracy and loss of parameters p, computed over the whole
\* validation set at once.
RefCorrect(p) ==
  Cardinality({i \in 1..Len(valLabels) :
                 (IF Prob(p, i) > 5 THEN 1 ELSE 0) = valLabels[i]})

RECURSIVE RefLossFrom(_, _)
RefLossFrom(p, i) ==
  IF i > Len(valLabels) THEN 0
  ELSE Abs(10 * valLabels[i] - Prob(p, i)) + RefLossFrom(p, i + 1)

\* How many of the epochs in trained have written their checkpoint.
EpochsSaved ==
  IF pc \in {"loop", "t_start", "best", "r_branch", "r_for", "idle"}
    THEN Len(trained)
    ELSE Len(trained) - 1

\* C4: every completed epoch of a training cell writes exactly one checkpoint before
\* the next epoch starts; the record's epoch is the epoch's 1-based number, its
\* parameters and optimizer state are those at the end of the epoch, and its
\* validation loss and accuracy are the ones of exactly those parameters.
C4_CheckpointPerEpoch ==
  /\ \A k \in 1..NumEpochs :
       (EpochFile(k) \in DOMAIN files) =>
         LET r == files[EpochFile(k)]
         IN /\ r.epoch = k
            /\ \E e \in evaluated :
                 /\ e.epoch = k
                 /\ r.model_state_dict = [g \in ParamKeys |-> e.params[g]]
                 /\ r.optimizer_state_dict = e.opt
                 /\ r.val_accuracy = e.acc
            /\ r.val_accuracy =
                 Ratio(RefCorrect(r.model_state_dict), Len(valLabels))
            /\ r.val_loss =
                 Ratio(RefLossFrom(r.model_state_dict, 1), NumBatches(Len(valLabels)))
  /\ (cell \in {"first", "resume"}) =>
       /\ SelectSeq(writes, IsEpochFile) =
            [i \in 1..EpochsSaved |-> EpochFile(trained[i])]
       /\ (pc \in {"best", "loop"} /\ Len(trained) >= 1) =>
            /\ files[EpochFile(Last(trained))].model_state_dict =
                 [g \in ParamKeys |-> params[g]]
            /\ files[EpochFile(Last(trained))].optimizer_state_dict = opt

\* The first training cell has completed two epochs and is about to start the third.
C4_Witness ==
  /\ cell = "first" /\ pc = "t_start" /\ Len(trained) = 2
  /\ writes = <<EpochFile(1), EpochFile(2)>>
  /\ files[EpochFile(1)].val_accuracy # files[EpochFile(2)].val_accuracy

\* C5: when the resume path is unset or names no existing file, the resume step
\* raises nothing, sets start_epoch to 0 and best_val_acc to 0.0, leaves the
\* parameters and the optimizer state as they were, and the loop starts at epoch 0.
C5_MissingCheckpointNotFatal ==
  [][/\ (pc = "r_branch" /\ (resume_checkpoint_path = NoPath
                             \/ resume_checkpoint_path \notin DOMAIN files)) =>
          /\ pc' = "r_for" /\ cell' = "resume" /\ err' = "none"
          /\ start_epoch' = 0 /\ best_val_acc' = Ratio(0, 1)
          /\ params' = params /\ opt' = opt
          /\ ~resumed'
     /\ (pc = "r_for" /\ ~resumed) =>
          /\ pc' = "loop" /\ epoch_iter' = 0
          /\ params' = params /\ opt' = opt
     /\ (pc = "loop" /\ cell = "resume" /\ ~resumed /\ trained = <<>>
         /\ NumEpochs > 0) =>
          /\ pc' = "t_start" /\ epoch' = 0]_vars

\* The path names a file that does not exist, in a session that has trained and
\* written other checkpoints.
C5_Witness ==
  /\ pc = "r_for" /\ ~resumed
  /\ resume_checkpoint_path # NoPath
  /\ resume_checkpoint_path \notin DOMAIN files
  /\ DOMAIN files # {}
  /\ opt > 0

\* C6: when the first training batch of a resumed run is fetched, the parameters and
\* the optimizer state are the ones of the checkpoint the run resumed from.
C6_ResumeRestoresState ==
  (cell = "resume" /\ resumed /\ pc = "t_fetch" /\ batch = 0 /\ Len(trained) = 1) =>
    /\ resume_checkpoint_path \in DOMAIN files
    /\ loaded_checkpoint = files[resume_checkpoint_path]
    /\ [g \in ParamKeys |-> params[g]] = files[resume_checkpoint_path].model_state_dict
    /\ opt = files[resume_checkpoint_path].optimizer_state_dict

\* The resumed run starts its first batch after a session that had trained past the
\* checkpoint: the optimizer had a later state before the load.
C6_Witness ==
  /\ cell = "resume" /\ resumed /\ pc = "t_fetch" /\ batch = 0 /\ Len(trained) = 1
  /\ runs = 2
  /\ opt < nextVer - 1

\* The epoch whose end the checkpoint record ck was saved at.
SavedAt(ck) ==
  {e \in evaluated : /\ e.epoch = ck.epoch
                     /\ e.opt = ck.optimizer_state_dict
                     /\ e.acc = ck.val_accuracy}

C8_EvaluateDoesNotTrain ==
  [][(pc \in {"e_start", "e_fetch", "e_forward", "e_update"}) =>
       /\ params' = params
       /\ opt' = opt
       /\ nextVer' = nextVer]_vars

\* The last validation batch is being scored while gradients of the training pass
\* are still held.
C8_Witness ==
  /\ pc = "e_update" /\ batch >= 1 /\ batch = NumBatches(Len(valLabels)) - 1
  /\ grads = "computed"
  /\ opt > 0

\* C9: the model is in training mode at every forward pass of train and in evaluation
\* mode at every forward pass of evaluate and of test_model.
C9_DropoutOnlyInTraining ==
  /\ (pc = "t_forward") => training
  /\ (pc \in {"e_forward", "x_forward"}) => ~training

\* A training pass runs its forward pass after test_model had put the model in
\* evaluation mode.
C9_Witness ==
  /\ pc = "t_forward" /\ training
  /\ report # NoReport
  /\ Len(trained) = 1 /\ batch = 0

\* C10: the accuracy evaluate returns is the number of samples whose probability,
\* thresholded at 0.5, equals the label, over the number of samples: exactly 1.0 when
\* every thresholded prediction equals its label, exactly 0.0 when each is its inverse.
C10_AccuracyDefinition ==
  (pc = "save") =>
    /\ val_acc.den = Len(valLabels)
    /\ val_acc.num = RefCorrect(params)
    /\ (\A i \in 1..Len(valLabels) :
          (IF Prob(params, i) > 5 THEN 1 ELSE 0) = valLabels[i])
         => (val_acc.num = val_acc.den /\ val_acc.den > 0)
    /\ (\A i \in 1..Len(valLabels) :
          (IF Prob(params, i) > 5 THEN 1 ELSE 0) = 1 - valLabels[i])
         => val_acc.num = 0

\* evaluate returned 1.0 on a validation set of several batches holding both labels
\* and a sample whose probability is exactly 0.5.
C10_Witness ==
  /\ pc = "save"
  /\ Len(valLabels) = ValLen
  /\ val_acc.num = val_acc.den
  /\ \E i, j \in 1..Len(valLabels) : valLabels[i] # valLabels[j]
  /\ \E i \in 1..Len(valLabels) : Prob(params, i) = 5
\* C11: at every step of evaluate 0 <= correct <= total and total is the number of
\* samples consumed so far (a short last batch counts its own size), and for every
\* data source evaluate returns an accuracy in [0,1]: no call ends in the division
\* correct / total failing.
C11_AccuracyBounds ==
  /\ (pc \in {"e_fetch", "e_forward", "e_update"}) =>
       /\ 0 <= correct /\ correct <= total
       /\ total = Min(batch * BatchSize, Len(valLabels))
  /\ (pc = "save") =>
       /\ val_acc.den > 0
       /\ 0 <= val_acc.num /\ val_acc.num <= val_acc.den
  /\ err # "ZeroDivisionError"
\* C12: within train the batches are taken one at a time in the loader's order, each
\* exactly once; a batch goes through fetch, zero_grad, forward, loss, backward,
\* optimizer step and running-loss accumulation in that order, and the next batch is
\* fetched only after the accumulation; train returns only when every batch has been
\* processed, and what it returns is the accumulated loss over the number of batches.
C12_TrainingPassOrder ==
  [][/\ (pc = "t_start") =>
          pc' = "t_fetch" /\ batch' = 0 /\ running_loss' = 0
     /\ (pc = "t_fetch" /\ batch < TrainBatches) =>
          \/ pc' = "t_zero_grad" /\ batch' = batch /\ running_loss' = running_loss
          \/ pc' = "idle" /\ err' = "FetchError"
     /\ (pc = "t_zero_grad") =>
          pc' = "t_forward" /\ batch' = batch /\ running_loss' = running_loss
     /\ (pc = "t_forward") =>
          pc' = "t_loss" /\ batch' = batch /\ running_loss' = running_loss
     /\ (pc = "t_loss") =>
          pc' = "t_backward" /\ batch' = batch /\ running_loss' = running_loss
     /\ (pc = "t_backward") =>
          /\ pc' = "t_step" /\ batch' = batch /\ running_loss' = running_loss
          /\ loss' = loss /\ params' = params
     /\ (pc = "t_step") =>
          /\ pc' = "t_accum" /\ batch' = batch /\ running_loss' = running_loss
          /\ loss' = loss /\ params' # params
     /\ (pc = "t_accum") =>
          /\ pc' = "t_fetch" /\ batch' = batch + 1
          /\ running_loss' = running_loss + loss
          /\ params' = params
     /\ (pc = "t_fetch" /\ batch >= TrainBatches) =>
          /\ batch = TrainBatches
          /\ pc' = "e_start"
          /\ train_loss' = Ratio(running_loss, TrainBatches)
     /\ (pc' = "e_start") => (pc = "t_fetch" /\ batch = TrainBatches)
     /\ (pc' = "t_zero_grad") => pc = "t_fetch"]_vars

\* A training pass of the second epoch has gone through all its batches and returned
\* a positive mean loss.
C12_Witness ==
  /\ pc = "e_start" /\ Len(trained) = 2
  /\ train_loss.den = TrainBatches /\ train_loss.num > 0
  /\ opt >= 2 * TrainBatches
\* One optimizer step per training batch: the step is taken between the batch's
\* backward pass and its accumulation, it changes the parameters, and no other step
\* of a training or validation pass does.
C13_StepPerBatch ==
  /\ (pc' = "t_step") => (pc = "t_backward" /\ params' = params)
  /\ (pc = "t_step") =>
       /\ pc' = "t_accum" /\ batch' = batch
       /\ params' # params
       /\ nextVer' = nextVer + 1
  /\ (pc = "t_accum") => (pc' = "t_fetch" /\ batch' = batch + 1 /\ params' = params)
  /\ (pc' = "t_accum") => pc = "t_step"

\* C13 (as stated): over the whole program the parameters change only in the
\* optimizer step, once per training batch.
C13_OnlyOptimizerStep ==
  [][/\ (params' # params) => pc = "t_step"
     /\ C13_StepPerBatch]_vars

\* C13 (amended): the parameters change only in the optimizer step, once per training
\* batch, and in the two checkpoint loads (model.load_state_dict in the resume step
\* and in test_model), which set them to the loaded record's and run while no batch is
\* in progress.
C13_ExclusiveMutation ==
  [][/\ (params' # params) => pc \in {"t_step", "r_branch", "x_load_state"}
     /\ (pc = "r_branch" /\ params' # params) =>
          /\ resume_checkpoint_path \in DOMAIN files
          /\ params' = files[resume_checkpoint_path].model_state_dict
          /\ batch = 0 /\ outputs = <<>>
     /\ (pc = "x_load_state" /\ params' # params) =>
          /\ params' = test_checkpoint.model_state_dict
          /\ batch = 0 /\ outputs = <<>>
     /\ C13_StepPerBatch]_vars

\* The resume step has replaced the parameters of the last optimizer step by those
\* of an older checkpoint.
C13_Witness ==
  /\ pc = "r_for" /\ resumed
  /\ params = loaded_checkpoint.model_state_dict
  /\ params["head"] < nextVer - 1
  /\ opt = params["head"]
\* Every file the running cell has written belongs to an epoch before the last one
\* it began: the per-epoch checkpoints are those of the earlier epochs, and a
\* best-model write directly follows the checkpoint of its epoch.
C14_NothingWrittenForEpoch ==
  /\ SelectSeq(writes, IsEpochFile) =
       [i \in 1..(Len(trained) - 1) |-> EpochFile(trained[i])]
  /\ \A i \in 1..Len(writes) :
       (writes[i] = BestFile) => (i > 1 /\ IsEpochFile(writes[i - 1]))

\* C14: a fetch that fails during the training or the validation pass of an epoch
\* ends the run there: the fetch is not retried, no further batch is processed,
\* neither the checkpoint nor the best-model file of that epoch is written, no later
\* epoch starts, and nothing runs until a cell is started anew.
C14_CorruptSampleAborts ==
  /\ [](err = "FetchError" =>
          (pc = "idle" /\ cell = "none" /\ batch = 0 /\ outputs = <<>>))
  /\ []((err = "FetchError" /\ trained # <<>>) => C14_NothingWrittenForEpoch)
  /\ [][/\ (pc \in {"t_fetch", "e_fetch"} /\ err' = "FetchError") =>
             /\ pc' = "idle" /\ cell' = "none"
             /\ files' = files /\ writes' = writes /\ trained' = trained
             /\ params' = params /\ opt' = opt
             /\ best_val_acc' = best_val_acc
        /\ (err = "FetchError") =>
             /\ runs' = runs + 1
             /\ trained' = <<>> /\ writes' = <<>>]_vars

\* The validation pass of the second epoch was aborted by a failing fetch, in a
\* session whose earlier run had written that epoch's checkpoint: the file is still
\* the earlier run's.
C14_Witness ==
  /\ err = "FetchError" /\ pc = "idle"
  /\ Len(trained) = 2 /\ ~training
  /\ writes # <<>>
  /\ EpochFile(2) \in DOMAIN files
  /\ files[EpochFile(2)].optimizer_state_dict < opt
\* ------------------------------------------------------------- CBAM (lines 45-68)
\* The attention gate on its own: constructed with any arguments, called on any
\* feature map.  Numbers are integers; a weight after nn.Sigmoid is kept in tenths.
MaxChannels == 3
MaxReduction == 3
MaxKernel == 3
MaxBatch == 2
MaxSide == 2
Seeds == {0, 1}

\* The element indices of a tensor of shape s.
Idx(s) == (1..s[1]) \X (1..s[2]) \X (1..s[3]) \X (1..s[4])

RECURSIVE Sum(_, _)
Sum(f, n) == IF n = 0 THEN 0 ELSE f[n] + Sum(f, n - 1)

\* An input feature map and the initial weights of a layer: any values, drawn by seed.
RandomTensor(s, seed) ==
  [shape |-> s,
   at |-> [i \in Idx(s) |-> ((seed + i[1] + 2 * i[2] + 3 * i[3] + 5 * i[4]) % 5) - 2]]

\* nn.AdaptiveAvgPool2d(1): the mean of every channel's plane.
AdaptiveAvgPool2d(t) ==
  LET h == t.shape[3]
      w == t.shape[4]
      s == <<t.shape[1], t.shape[2], 1, 1>>
  IN [shape |-> s,
      at |-> [i \in Idx(s) |->
                Sum([k \in 1..(h * w) |->
                       t.at[<<i[1], i[2], ((k - 1) \div w) + 1, ((k - 1) % w) + 1>>]],
                    h * w) \div (h * w)]]

\* The element (n, c, r, q) of t padded with zeros all around.
Padded(t, n, c, r, q) ==
  IF r >= 1 /\ r <= t.shape[3] /\ q >= 1 /\ q <= t.shape[4]
    THEN t.at[<<n, c, r, q>>]
    ELSE 0

\* nn.Conv2d(in, out, k, padding=p, bias=False) with weight wt (out, in, k, k):
\* stride 1, so a side of length h comes out with length h + 2p - k + 1.
Conv2d(wt, p, t) ==
  LET cin == wt.shape[2]
      kh == wt.shape[3]
      kw == wt.shape[4]
      s == <<t.shape[1], wt.shape[1],
             t.shape[3] + 2 * p - kh + 1, t.shape[4] + 2 * p - kw + 1>>
  IN [shape |-> s,
      at |-> [i \in Idx(s) |->
                Sum([k \in 1..(cin * kh * kw) |->
                       LET c == ((k - 1) \div (kh * kw)) + 1
                           a == (((k - 1) % (kh * kw)) \div kw) + 1
                           b == ((k - 1) % kw) + 1
                       IN wt.at[<<i[2], c, a, b>>]
                            * Padded(t, i[1], c, i[3] + a - 1 - p, i[4] + b - 1 - p)],
                    cin * kh * kw)]]

ReLU(t) == [shape |-> t.shape, at |-> [i \in Idx(t.shape) |-> Max(t.at[i], 0)]]
\* nn.Sigmoid on one element, in tenths: 0.5 at 0, increasing, and 0.0 and 1.0 where
\* the floating-point sigmoid saturates.
SigmoidValue(z) ==
  IF z <= -20 THEN 0 ELSE IF z >= 20 THEN 10 ELSE (z + 20) \div 4

Sigmoid(t) == [shape |-> t.shape, at |-> [i \in Idx(t.shape) |-> SigmoidValue(t.at[i])]]

\* Broadcasting of a * b: in every dimension the sizes are equal or one of them is 1.
Broadcastable(s, u) == \A d \in 1..4 : s[d] = u[d] \/ s[d] = 1 \/ u[d] = 1
BroadcastShape(s, u) ==
  <<IF s[1] = 1 THEN u[1] ELSE s[1], IF s[2] = 1 THEN u[2] ELSE s[2],
    IF s[3] = 1 THEN u[3] ELSE s[3], IF s[4] = 1 THEN u[4] ELSE s[4]>>
\* The element of a tensor of shape s that index i of the broadcast result reads.
Expand(i, s) ==
  <<IF s[1] = 1 THEN 1 ELSE i[1], IF s[2] = 1 THEN 1 ELSE i[2],
    IF s[3] = 1 THEN 1 ELSE i[3], IF s[4] = 1 THEN 1 ELSE i[4]>>

\* a * b (elementwise, broadcast), for operands that can be broadcast.
Mul(a, b) ==
  LET s == BroadcastShape(a.shape, b.shape)
  IN [shape |-> s,
      at |-> [i \in Idx(s) |-> a.at[Expand(i, a.shape)] * b.at[Expand(i, b.shape)]]]

\* torch.max(t, dim=1, keepdim=True)[0]
MaxOverChannels(t) ==
  LET s == <<t.shape[1], 1, t.shape[3], t.shape[4]>>
  IN [shape |-> s,
      at |-> [i \in Idx(s) |->
                CHOOSE m \in {t.at[<<i[1], c, i[3], i[4]>>] : c \in 1..t.shape[2]} :
                  \A c \in 1..t.shape[2] : m >= t.at[<<i[1], c, i[3], i[4]>>]]]

\* torch.mean(t, dim=1, keepdim=True)
MeanOverChannels(t) ==
  LET s == <<t.shape[1], 1, t.shape[3], t.shape[4]>>
  IN [shape |-> s,
      at |-> [i \in Idx(s) |->
                Sum([c \in 1..t.shape[2] |-> t.at[<<i[1], c, i[3], i[4]>>]],
                    t.shape[2]) \div t.shape[2]]]

\* torch.cat([a, b], dim=1)
Cat(a, b) ==
  LET s == <<a.shape[1], a.shape[2] + b.shape[2], a.shape[3], a.shape[4]>>
  IN [shape |-> s,
      at |-> [i \in Idx(s) |->
                IF i[2] <= a.shape[2]
                  THEN a.at[i]
                  ELSE b.at[<<i[1], i[2] - a.shape[2], i[3], i[4]>>]]]
\* The learnable parameters of the two stages, by their names in state_dict().
ChannelAttentionParams == {"channel_attention.1.weight", "channel_attention.3.weight"}
SpatialAttentionParams == {"spatial_attention.0.weight"}

\* channels // reduction: the width of the bottleneck.
Hidden(channels, reduction) == channels \div reduction

\* CBAM.__init__: the layers' weights (initialised at random) and the conv's padding.
NewCBAM(channels, reduction, kernel_size, seed) ==
  LET hidden == Hidden(channels, reduction)
  IN [params |->
        [name \in ChannelAttentionParams \cup SpatialAttentionParams |->
           CASE name = "channel_attention.1.weight" ->
                  RandomTensor(<<hidden, channels, 1, 1>>, seed)
             [] name = "channel_attention.3.weight" ->
                  RandomTensor(<<channels, hidden, 1, 1>>, seed + 1)
             [] name = "spatial_attention.0.weight" ->
                  RandomTensor(<<1, 2, kernel_size, kernel_size>>, seed + 2)],
      padding |-> kernel_size \div 2]

\* self.channel_attention(t): pool, 1x1 conv, ReLU, 1x1 conv, sigmoid.
ChannelAttention(ps, t) ==
  Sigmoid(Conv2d(ps["channel_attention.3.weight"], 0,
                 ReLU(Conv2d(ps["channel_attention.1.weight"], 0,
                             AdaptiveAvgPool2d(t)))))

\* self.spatial_attention(t): k x k conv with padding k // 2, sigmoid.
SpatialAttention(ps, padding, t) ==
  Sigmoid(Conv2d(ps["spatial_attention.0.weight"], padding, t))

\* The parameters of m whose names are in names.
ParamsOf(m, names) == [name \in names |-> m.params[name]]

\* The kernel has run no cell: the state the notebook's definitions are loaded in.
KernelFresh ==
  /\ params = Uniform(0) /\ opt = 0 /\ grads = "none" /\ training = TRUE
  /\ nextVer = 1
  /\ files = <<>>
  /\ valLabels = <<>>
  /\ cell = "none" /\ pc = "idle" /\ runs = 0 /\ err = "none"
  /\ resume_checkpoint_path = NoPath /\ loaded_checkpoint = NoCheckpoint
  /\ start_epoch = 0 /\ best_val_acc = Ratio(0, 1)
  /\ epoch = 0 /\ epoch_iter = 0
  /\ train_loss = Ratio(0, 1) /\ val_loss = Ratio(0, 1) /\ val_acc = Ratio(0, 1)
  /\ batch = 0 /\ running_loss = 0 /\ loss = 0 /\ outputs = <<>>
  /\ correct = 0 /\ total = 0
  /\ test_checkpoint = NoCheckpoint /\ all_preds = <<>> /\ all_labels = <<>>
  /\ report = NoReport
  /\ trained = <<>> /\ writes = <<>> /\ evaluated = {} /\ resumed = FALSE
  /\ notebook = "none"

kernel_vars == <<model_vars, files, valLabels, report, cell, pc, runs, err, cell_vars,
                 loop_vars, res_vars, fn_vars, test_vars, hist_vars, notebook>>

\* CBAM(channels, reduction, kernel_size) is about to be constructed, and a feature
\* map of `channels` channels is at hand.
InitCBAM ==
  /\ KernelFresh /\ DataIdle
  /\ gate_pc = "new"
  /\ \E c \in 1..MaxChannels, r \in 0..MaxReduction, k \in 1..MaxKernel :
       /\ gate_args = [channels |-> c, reduction |-> r, kernel_size |-> k]
       /\ \E n \in 1..MaxBatch, h \in 1..MaxSide, w \in 1..MaxSide, seed \in Seeds :
            gate_input = RandomTensor(<<n, c, h, w>>, seed)
  /\ cbam = NoModule
  /\ gate_x = NoTensor /\ ca = NoTensor /\ sa_input = NoTensor /\ sa = NoTensor
  /\ gate_ret = NoTensor /\ gate_err = "none"
\* An exception leaves CBAM's code: the frame's locals stay as the traceback shows them.
GateRaise(e) ==
  /\ gate_pc' = "raised" /\ gate_err' = e
  /\ UNCHANGED <<gate_args, cbam, gate_input, gate_x, ca, sa_input, sa, gate_ret>>

\* CBAM.__init__ (lines 46-58).  channels // reduction raises for reduction = 0.  A
\* bottleneck of width 0 is build-dependent: the weight initialisation of older
\* PyTorch builds divides by the fan-in (0), newer ones skip empty tensors.
Construct ==
  /\ gate_pc = "new"
  /\ IF gate_args.reduction = 0
       THEN GateRaise("ZeroDivisionError")
       ELSE \/ /\ \E seed \in Seeds :
                    cbam' = NewCBAM(gate_args.channels, gate_args.reduction,
                                    gate_args.kernel_size, seed)
               /\ gate_pc' = "constructed"
               /\ UNCHANGED <<gate_args, gate_input, gate_x, ca, sa_input, sa,
                              gate_ret, gate_err>>
            \/ /\ Hidden(gate_args.channels, gate_args.reduction) = 0
               /\ GateRaise("ZeroDivisionError")
  /\ UNCHANGED <<kernel_vars, data_vars>>

\* cbam(gate_input): forward's parameter x is bound to the input.
ForwardCall ==
  /\ gate_pc = "constructed"
  /\ gate_x' = gate_input
  /\ gate_pc' = "f_ca"
  /\ UNCHANGED <<gate_args, cbam, gate_input, ca, sa_input, sa, gate_ret, gate_err>>
  /\ UNCHANGED <<kernel_vars, data_vars>>

\* ca = self.channel_attention(x).  With a bottleneck of width 0 the second conv has
\* no input channel: a build either rejects the empty tensor or sums nothing (0).
ForwardChannelAttention ==
  /\ gate_pc = "f_ca"
  /\ \/ /\ ca' = ChannelAttention(ParamsOf(cbam, ChannelAttentionParams), gate_x)
        /\ gate_pc' = "f_mul1"
        /\ UNCHANGED <<gate_args, cbam, gate_input, gate_x, sa_input, sa, gate_ret,
                       gate_err>>
     \/ /\ Hidden(gate_args.channels, gate_args.reduction) = 0
        /\ GateRaise("RuntimeError")
  /\ UNCHANGED <<kernel_vars, data_vars>>

\* x = x * ca
ForwardGateChannels ==
  /\ gate_pc = "f_mul1"
  /\ gate_x' = Mul(gate_x, ca)
  /\ gate_pc' = "f_stats"
  /\ UNCHANGED <<gate_args, cbam, gate_input, ca, sa_input, sa, gate_ret, gate_err>>
  /\ UNCHANGED <<kernel_vars, data_vars>>

\* A spatial stage that takes its statistics from the input of forward.
ForwardStatsOfInput ==
  /\ gate_pc = "f_stats"
  /\ sa_input' = Cat(MaxOverChannels(gate_input), MeanOverChannels(gate_input))
  /\ gate_pc' = "f_sa"
  /\ UNCHANGED <<gate_args, cbam, gate_input, gate_x, ca, sa, gate_ret, gate_err>>
  /\ UNCHANGED <<kernel_vars, data_vars>>

\* max_out, _ = torch.max(x, dim=1, keepdim=True); mean_out = torch.mean(...);
\* sa_input = torch.cat([max_out, mean_out], dim=1)
ForwardStats ==
  /\ gate_pc = "f_stats"
  /\ sa_input' = Cat(MaxOverChannels(gate_x), MeanOverChannels(gate_x))
  /\ gate_pc' = "f_sa"
  /\ UNCHANGED <<gate_args, cbam, gate_input, gate_x, ca, sa, gate_ret, gate_err>>
  /\ UNCHANGED <<kernel_vars, data_vars>>

\* sa = self.spatial_attention(sa_input)
ForwardSpatialAttention ==
  /\ gate_pc = "f_sa"
  /\ sa' = SpatialAttention(ParamsOf(cbam, SpatialAttentionParams), cbam.padding,
                            sa_input)
  /\ gate_pc' = "f_mul2"
  /\ UNCHANGED <<gate_args, cbam, gate_input, gate_x, ca, sa_input, gate_ret,
                 gate_err>>
  /\ UNCHANGED <<kernel_vars, data_vars>>

\* x = x * sa: broadcast, or a RuntimeError when the shapes cannot be broadcast.
ForwardGatePixels ==
  /\ gate_pc = "f_mul2"
  /\ IF Broadcastable(gate_x.shape, sa.shape)
       THEN /\ gate_x' = Mul(gate_x, sa)
            /\ gate_pc' = "f_return"
            /\ UNCHANGED <<gate_args, cbam, gate_input, ca, sa_input, sa, gate_ret,
                           gate_err>>
       ELSE GateRaise("RuntimeError")
  /\ UNCHANGED <<kernel_vars, data_vars>>

\* return x
ForwardReturn ==
  /\ gate_pc = "f_return"
  /\ gate_ret' = gate_x
  /\ gate_pc' = "returned"
  /\ UNCHANGED <<gate_args, cbam, gate_input, gate_x, ca, sa_input, sa, gate_err>>
  /\ UNCHANGED <<kernel_vars, data_vars>>

NextCBAM ==
  \/ Construct \/ ForwardCall \/ ForwardChannelAttention \/ ForwardGateChannels
  \/ ForwardStats \/ ForwardSpatialAttention \/ ForwardGatePixels \/ ForwardReturn

SpecCBAM == InitCBAM /\ [][NextCBAM]_vars
\* C15: for every gate that can be constructed (any channel count, reduction ratio
\* and kernel size) and every feature map of its channel count, forward's last
\* multiplication is defined and forward returns a map of exactly the input's shape.
C15_ShapePreserved ==
  /\ (gate_pc = "f_mul2") => Broadcastable(gate_x.shape, sa.shape)
  /\ (gate_pc = "returned") => gate_ret.shape = gate_input.shape
\* C16: in forward the channel weights are computed from the original input with the
\* channel stage's parameters only; the maximum and mean over channels fed to the
\* spatial stage are those of the channel-gated map; the spatial mask is computed from
\* them with the spatial stage's parameters only; the output is the channel-gated map
\* times the spatial mask; and no parameter belongs to both stages.
C16_GatingOrder ==
  /\ ChannelAttentionParams \cap SpatialAttentionParams = {}
  /\ (cbam # NoModule) =>
       DOMAIN cbam.params = ChannelAttentionParams \cup SpatialAttentionParams
  /\ (gate_pc \in {"f_mul1", "f_stats", "f_sa", "f_mul2", "f_return", "returned"}) =>
       ca = ChannelAttention([n \in ChannelAttentionParams |-> cbam.params[n]],
                             gate_input)
  /\ (gate_pc \in {"f_stats", "f_sa", "f_mul2"}) => gate_x = Mul(gate_input, ca)
  /\ (gate_pc \in {"f_sa", "f_mul2", "f_return", "returned"}) =>
       sa_input = Cat(MaxOverChannels(Mul(gate_input, ca)),
                      MeanOverChannels(Mul(gate_input, ca)))
  /\ (gate_pc \in {"f_mul2", "f_return", "returned"}) =>
       sa = SpatialAttention([n \in SpatialAttentionParams |-> cbam.params[n]],
                             cbam.padding, sa_input)
  /\ (gate_pc = "returned") => gate_ret = Mul(Mul(gate_input, ca), sa)

\* forward has returned on a map of several channels whose channel weights differ and
\* whose spatial mask is not constant: statistics of the input would have been others.
C16_Witness ==
  /\ gate_pc = "returned"
  /\ gate_input.shape[2] >= 2 /\ gate_input.shape[3] >= 2
  /\ \E i, j \in DOMAIN ca.at : ca.at[i] # ca.at[j]
  /\ \E i, j \in DOMAIN sa.at : sa.at[i] # sa.at[j]
  /\ MaxOverChannels(gate_input) # MeanOverChannels(gate_input)
  /\ sa # SpatialAttention([n \in SpatialAttentionParams |-> cbam.params[n]],
                           cbam.padding,
                           Cat(MaxOverChannels(gate_input), MeanOverChannels(gate_input)))
\* C17: for any input feature map the channel stage produces exactly one weight per
\* channel and sample, the spatial stage exactly one weight per pixel location and
\* sample, and every weight lies in [0,1] (0..10 in tenths).
C17_WeightRangeAndCount ==
  /\ (gate_pc \in {"f_mul1", "f_stats", "f_sa", "f_mul2", "f_return", "returned"}) =>
       /\ ca.shape = <<gate_input.shape[1], gate_input.shape[2], 1, 1>>
       /\ \A i \in DOMAIN ca.at : ca.at[i] >= 0 /\ ca.at[i] <= 10
  /\ (gate_pc \in {"f_mul2", "f_return", "returned"}) =>
       /\ sa.shape = <<gate_input.shape[1], 1, gate_input.shape[3], gate_input.shape[4]>>
       /\ \A i \in DOMAIN sa.at : sa.at[i] >= 0 /\ sa.at[i] <= 10
\* C18: constructing the gate with a reduction ratio that does not evenly divide the
\* channel count fails in __init__: no module exists, so no forward pass can run.
C18_ReductionValidated ==
  (gate_pc # "new" /\ (gate_args.reduction = 0
                       \/ gate_args.channels % gate_args.reduction # 0)) =>
    (gate_pc = "raised" /\ cbam = NoModule)
\* C19: every per-epoch checkpoint file is a mapping with exactly the five entries
\* epoch, model_state_dict, optimizer_state_dict, val_loss and val_accuracy, and the
\* best-model file, after every write of it, is the mapping from parameter names to
\* values alone: no epoch number, no optimizer state.
C19_ArtifactShapes ==
  /\ \A name \in DOMAIN files :
       IsEpochFile(name) =>
         /\ DOMAIN files[name] = {"epoch", "model_state_dict", "optimizer_state_dict",
                                  "val_loss", "val_accuracy"}
         /\ DOMAIN files[name].model_state_dict = ParamKeys
  /\ (BestFile \in DOMAIN files) =>
       /\ DOMAIN files[BestFile] = ParamKeys
       /\ "epoch" \notin DOMAIN files[BestFile]
       /\ "optimizer_state_dict" \notin DOMAIN files[BestFile]
  /\ (writes # <<>>) => Last(writes) \in DOMAIN files

\* The resumable cell has just written the best-model file after the checkpoint of its
\* second epoch.
C19_Witness ==
  /\ cell = "resume" /\ pc = "loop"
  /\ Len(writes) >= 3 /\ Last(writes) = BestFile
  /\ writes[Len(writes) - 1] = EpochFile(Last(trained))
  /\ Len(trained) >= 2
\* ------------------------------------------------------------- CustomDataset (lines 101-126)
\* The dataset adapter on its own: constructed on any directory tree.
MaxEntries == 2

\* self.classes
Classes == <<"benign", "malignant">>

\* What a directory entry can be: a decodable image file, a file cv2 cannot decode,
\* a sub-directory.
Kinds == {"image", "corrupt", "dir"}

\* The listings a class directory can have: entry name -> kind.
Listings == UNION {[names -> Kinds] : names \in SUBSET (1..MaxEntries)}

\* What root_dir/<name> can be: nothing, a plain file, a directory with a listing.
Nodes ==
  {[kind |-> "absent"], [kind |-> "file"]} \cup {[kind |-> "dir", entries |-> d] : d \in Listings}

\* An entry of root_dir besides the two class directories: none, a file, or a third
\* directory holding an image.
OtherNodes ==
  {[kind |-> "absent"], [kind |-> "file"], [kind |-> "dir", entries |-> (1 :> "image")]}

\* os.path.join(cls_path, img_name)
Join(cls, name) == <<cls, name>>

\* CustomDataset(root_dir) is about to be constructed on a directory tree.
InitDataset ==
  /\ KernelFresh /\ GateIdle
  /\ ds_pc = "new"
  /\ ds_root \in [benign : Nodes, malignant : Nodes, other : OtherNodes]
  /\ ds_image_paths = <<>> /\ ds_labels = <<>>
  /\ ds_label = 0 /\ ds_todo = {} /\ ds_item = NoItem /\ ds_err = "none"

\* self.image_paths = []; self.labels = []; for label, cls in enumerate(self.classes)
DatasetInit ==
  /\ ds_pc = "new"
  /\ ds_image_paths' = <<>> /\ ds_labels' = <<>>
  /\ ds_label' = 0
  /\ ds_pc' = "for_cls"
  /\ UNCHANGED <<ds_root, ds_todo, ds_item, ds_err>>
  /\ UNCHANGED <<kernel_vars, gate_vars>>

\* cls_path = os.path.join(root_dir, cls); os.listdir(cls_path): every entry of the
\* directory, of whatever kind; it raises when cls_path is missing or is not a directory.
ListDir ==
  /\ ds_pc = "for_cls" /\ ds_label < Len(Classes)
  /\ LET node == ds_root[Classes[ds_label + 1]]
     IN CASE node.kind = "absent" ->
               /\ ds_err' = "FileNotFoundError" /\ ds_pc' = "raised"
               /\ UNCHANGED ds_todo
          [] node.kind = "file" ->
               /\ ds_err' = "NotADirectoryError" /\ ds_pc' = "raised"
               /\ UNCHANGED ds_todo
          [] node.kind = "dir" ->
               /\ ds_todo' = DOMAIN node.entries
               /\ ds_pc' = "for_img"
               /\ UNCHANGED ds_err
  /\ UNCHANGED <<ds_root, ds_image_paths, ds_labels, ds_label, ds_item>>
  /\ UNCHANGED <<kernel_vars, gate_vars>>

\* for img_name in os.listdir(cls_path) (in arbitrary order): append the path and label.
AppendEntry ==
  /\ ds_pc = "for_img"
  /\ \E name \in ds_todo :
       /\ ds_image_paths' = Append(ds_image_paths, Join(Classes[ds_label + 1], name))
       /\ ds_labels' = Append(ds_labels, ds_label)
       /\ ds_todo' = ds_todo \ {name}
  /\ UNCHANGED <<ds_pc, ds_root, ds_label, ds_item, ds_err>>
  /\ UNCHANGED <<kernel_vars, gate_vars>>

\* The listing is exhausted: enumerate yields the next class.
NextClass ==
  /\ ds_pc = "for_img" /\ ds_todo = {}
  /\ ds_label' = ds_label + 1
  /\ ds_pc' = "for_cls"
  /\ UNCHANGED <<ds_root, ds_image_paths, ds_labels, ds_todo, ds_item, ds_err>>
  /\ UNCHANGED <<kernel_vars, gate_vars>>

\* Both classes are done: __init__ returns.
DatasetReady ==
  /\ ds_pc = "for_cls" /\ ds_label >= Len(Classes)
  /\ ds_pc' = "ready"
  /\ UNCHANGED <<ds_root, ds_image_paths, ds_labels, ds_label, ds_todo, ds_item, ds_err>>
  /\ UNCHANGED <<kernel_vars, gate_vars>>

\* __len__
DatasetLen == Len(ds_image_paths)

\* __getitem__(idx): cv2.imread returns None for what it cannot decode and cvtColor
\* raises on it; otherwise the image and self.labels[idx] come back.
GetItem ==
  /\ ds_pc = "ready"
  /\ \E idx \in 1..DatasetLen :
       LET path == ds_image_paths[idx]
       IN IF ds_root[path[1]].entries[path[2]] = "image"
            THEN /\ ds_item' = [image |-> path, label |-> ds_labels[idx]]
                 /\ ds_err' = "none"
            ELSE /\ ds_item' = NoItem
                 /\ ds_err' = "cv2.error"
  /\ UNCHANGED <<ds_pc, ds_root, ds_image_paths, ds_labels, ds_label, ds_todo>>
  /\ UNCHANGED <<kernel_vars, gate_vars>>

NextDataset ==
  \/ DatasetInit \/ ListDir \/ AppendEntry \/ NextClass \/ DatasetReady \/ GetItem

SpecDataset == InitDataset /\ [][NextDataset]_vars
\* The files (decodable or not) directly inside the class directory cls of the tree r.
FilesIn(r, cls) ==
  IF r[cls].kind = "dir"
    THEN {name \in DOMAIN r[cls].entries : r[cls].entries[name] \in {"image", "corrupt"}}
    ELSE {}

\* C20: on every root the dataset can be constructed on, every sample's label is 0 or
\* 1, it is 0 exactly for a path in benign/ and 1 exactly for a path in malignant/,
\* the length is the number of files in those two directories, every label a fetch
\* returns is the sample's, and what else the root holds adds no sample and no error.
C20_BinaryLabels ==
  /\ (ds_pc = "ready") =>
       /\ Len(ds_labels) = Len(ds_image_paths)
       /\ \A i \in 1..Len(ds_image_paths) :
            /\ ds_labels[i] \in {0, 1}
            /\ (ds_labels[i] = 0) <=> (ds_image_paths[i][1] = "benign")
            /\ (ds_labels[i] = 1) <=> (ds_image_paths[i][1] = "malignant")
       /\ DatasetLen = Cardinality(FilesIn(ds_root, "benign"))
                         + Cardinality(FilesIn(ds_root, "malignant"))
       /\ (ds_item # NoItem) =>
            /\ ds_item.label \in {0, 1}
            /\ (ds_item.label = 0) <=> (ds_item.image[1] = "benign")
  /\ (ds_root.benign.kind = "dir" /\ ds_root.malignant.kind = "dir") =>
       ds_err \notin {"FileNotFoundError", "NotADirectoryError"}
\* ------------------------------------------------------------- best file and resume
\* Every epoch number was evaluated at most once in the session: the epochs in
\* evaluated then form one chain, each trained from the end of the one before it,
\* through the per-epoch checkpoint where a run was resumed.
SingleLineage ==
  \A e1, e2 \in evaluated : (e1.epoch = e2.epoch) => (e1 = e2)

\* The accuracy of entry e is the maximum over all epochs completed so far.
IsGlobalMax(e) ==
  \A f \in evaluated : ~GT(f.acc, e.acc)

\* C21: in a run of the resumable loop, fresh or resumed from a per-epoch checkpoint,
\* whenever an epoch has completed (and some completed epoch scored above 0.0) the
\* best-model file exists and holds the parameters of an epoch whose validation
\* accuracy is the maximum over all epochs completed so far, the ones completed
\* before the resumed checkpoint included.
C21_BestTracksGlobalMax ==
  (/\ cell = "resume" /\ pc = "loop" /\ err = "none" /\ Len(trained) >= 1
   /\ SingleLineage
   /\ \E e \in evaluated : e.acc.num > 0) =>
    /\ BestFile \in DOMAIN files
    /\ \E e \in evaluated :
         /\ files[BestFile] = [k \in ParamKeys |-> e.params[k]]
         /\ IsGlobalMax(e)

\* C22: a run resumed from the checkpoint of epoch N writes per-epoch checkpoint files
\* only for epochs greater than N; no step of the run changes, creates or removes the
\* file of an epoch less than or equal to N, and the file it resumed from still holds
\* the record that was loaded.
C22_ResumeKeepsHistory ==
  /\ [](cell = "resume" /\ resumed =>
          /\ resume_checkpoint_path \in DOMAIN files
          /\ files[resume_checkpoint_path] = loaded_checkpoint
          /\ \A i \in 1..Len(writes) : \A k \in 1..NumEpochs :
               (writes[i] = EpochFile(k)) => (k > loaded_checkpoint.epoch))
  /\ [][(cell = "resume" /\ resumed) =>
          \A k \in 1..loaded_checkpoint.epoch :
            /\ (EpochFile(k) \in DOMAIN files) <=> (EpochFile(k) \in DOMAIN files')
            /\ (EpochFile(k) \in DOMAIN files) =>
                 (files'[EpochFile(k)] = files[EpochFile(k)])]_vars

\* A run resumed from the checkpoint of epoch 2 has written the checkpoint of epoch 3
\* while the files of epochs 1 and 2, written by the run before it, exist.
C22_Witness ==
  /\ cell = "resume" /\ resumed /\ pc = "best"
  /\ loaded_checkpoint.epoch = 2
  /\ writes = <<EpochFile(3)>>
  /\ {EpochFile(1), EpochFile(2)} \subseteq DOMAIN files
  /\ runs = 2
  /\ files[EpochFile(3)].optimizer_state_dict = opt

\* ------------------------------------------------------------- test_model's input
\* The record test_model has read is the best-model file's.
ReadBestFile ==
  /\ BestFile \in DOMAIN files
  /\ test_checkpoint = files[BestFile]

\* The record test_model has read is a per-epoch checkpoint's.
ReadEpochFile ==
  \E k \in 1..NumEpochs :
    /\ EpochFile(k) \in DOMAIN files
    /\ test_checkpoint = files[EpochFile(k)]

\* C23: given the best-model file, test_model fails with a KeyError while reading the
\* model state, with the in-memory parameters, the mode and the report as they were;
\* given a per-epoch checkpoint it replaces the in-memory parameters with the
\* checkpoint's, and they are the checkpoint's when the first test batch is fetched.
C23_FullRecordsOnly ==
  /\ [](cell = "test" /\ pc \in {"x_eval", "x_fetch", "x_forward", "x_collect"} =>
          /\ ReadEpochFile
          /\ [k \in ParamKeys |-> params[k]] = test_checkpoint.model_state_dict)
  /\ [][(pc = "x_load_state") =>
          /\ ReadBestFile \/ ReadEpochFile
          /\ ReadBestFile =>
               /\ err' = "KeyError" /\ pc' = "idle"
               /\ params' = params /\ training' = training /\ report' = report
          /\ ReadEpochFile =>
               /\ err' = "none" /\ pc' = "x_eval"
               /\ [k \in ParamKeys |-> params'[k]] = test_checkpoint.model_state_dict
               /\ report' = report]_vars

\* test_model has failed on the best-model file, after an earlier call on a per-epoch
\* checkpoint had replaced the parameters of a model that was trained further and had
\* printed its report: the parameters are still that checkpoint's and not the best
\* file's.
C23_Witness ==
  /\ pc = "idle" /\ err = "KeyError" /\ runs = 3
  /\ report # NoReport
  /\ BestFile \in DOMAIN files
  /\ files[BestFile] # [k \in ParamKeys |-> params[k]]
  /\ \E k \in 1..NumEpochs :
       /\ EpochFile(k) \in DOMAIN files
       /\ files[EpochFile(k)].model_state_dict = [g \in ParamKeys |-> params[g]]
       /\ files[EpochFile(k)].optimizer_state_dict # opt

\* ------------------------------------------------------------- run all, top to bottom
\* The two notebooks of the repository. Each is run from its first cell to its last
\* on an empty save_dir; an exception nobody catches stops the run.
Notebooks == {"BreastNetPP_GPU_Friendly.ipynb", "part_000"}

\* num_epochs of the notebook's training cells.
NumEpochsOf(nb) == IF nb = "part_000" THEN 5 ELSE 10

\* The file the notebook's training loop saves the checkpoint of epoch n to:
\* f"{save_dir}/breastnetpp_epoch_{epoch+1}.pth" in the one notebook,
\* f"{save_dir}/brestnetpp_epoch_{epoch+1}.pth" in the other.
TrainFile(nb, n) == IF nb = "part_000" THEN <<"brestnetpp_epoch", n>> ELSE EpochFile(n)

\* resume_checkpoint_path = "saved_models/breastnetpp_epoch_4.pth"
RunAllResumePath == EpochFile(4)

\* test_model(model, test_loader, "saved_models/breastnetpp_epoch_5.pth"), the same
\* call in both notebooks.
FinalTestPath == EpochFile(5)

\* train's running_loss after the batches from b on, the model holding p at batch b
\* and value v being the next the optimizer produces.
RECURSIVE PassLoss(_, _, _)
PassLoss(p, v, b) ==
  IF b >= TrainBatches THEN 0
  ELSE TrainLoss(p, b) + PassLoss(Uniform(v), v + 1, b + 1)

InitRunAll ==
  /\ notebook \in Notebooks
  /\ params = Uniform(0) /\ opt = 0 /\ grads = "none" /\ training = TRUE
  /\ nextVer = 1
  /\ files = <<>>
  /\ valLabels \in LabelSeqs(ValLen)
  /\ cell = "first" /\ pc = "loop" /\ runs = 1 /\ err = "none"
  /\ resume_checkpoint_path = NoPath /\ loaded_checkpoint = NoCheckpoint
  /\ start_epoch = 0 /\ best_val_acc = Ratio(0, 1)
  /\ epoch = 0 /\ epoch_iter = 0
  /\ train_loss = Ratio(0, 1) /\ val_loss = Ratio(0, 1) /\ val_acc = Ratio(0, 1)
  /\ batch = 0 /\ running_loss = 0 /\ loss = 0 /\ outputs = <<>>
  /\ correct = 0 /\ total = 0
  /\ test_checkpoint = NoCheckpoint /\ all_preds = <<>> /\ all_labels = <<>>
  /\ report = NoReport
  /\ trained = <<>> /\ writes = <<>> /\ evaluated = {} /\ resumed = FALSE
  /\ GateIdle /\ DataIdle

\* One iteration of a training cell's loop: train, evaluate, save the checkpoint and,
\* in the resumable cell, the best model. evaluate divides by the number of
\* validation samples.
RunAllEpoch ==
  /\ pc = "loop" /\ cell \in {"first", "resume"}
  /\ epoch_iter < NumEpochsOf(notebook)
  /\ LET o1 == nextVer + TrainBatches - 1
         p1 == Uniform(o1)
         name == TrainFile(notebook, epoch_iter + 1)
     IN /\ epoch' = epoch_iter /\ epoch_iter' = epoch_iter + 1
        /\ params' = p1 /\ opt' = o1 /\ nextVer' = nextVer + TrainBatches
        /\ grads' = "computed" /\ training' = FALSE
        /\ train_loss' = Ratio(PassLoss(params, nextVer, 0), TrainBatches)
        /\ trained' = Append(trained, epoch_iter + 1)
        /\ IF Len(valLabels) = 0
             THEN /\ Raise("ZeroDivisionError")
                  /\ UNCHANGED <<val_loss, val_acc, files, writes, evaluated,
                                 best_val_acc>>
             ELSE LET va == Ratio(RefCorrect(p1), Len(valLabels))
                      vl == Ratio(RefLossFrom(p1, 1), NumBatches(Len(valLabels)))
                      saved == Save(files, name,
                                    CheckpointRecord(epoch_iter, p1, o1, vl, va))
                  IN /\ val_acc' = va /\ val_loss' = vl
                     /\ evaluated' = evaluated \cup
                          {[epoch |-> epoch_iter + 1, params |-> p1, opt |-> o1,
                            acc |-> va]}
                     /\ IF cell = "resume" /\ IsNewBest(va, best_val_acc)
                          THEN /\ best_val_acc' = va
                               /\ files' = Save(saved, BestFile, StateDict(p1))
                               /\ writes' = writes \o <<name, BestFile>>
                          ELSE /\ best_val_acc' = best_val_acc
                               /\ files' = saved
                               /\ writes' = Append(writes, name)
                     /\ pc' = "loop"
                     /\ DropLocals
                     /\ UNCHANGED <<cell, err>>
  /\ UNCHANGED <<env_vars, runs, resume_checkpoint_path, loaded_checkpoint,
                 start_epoch, resumed>>

\* A sample of the training set fails to decode after b batches of the epoch.
RunAllEpochFails ==
  /\ pc = "loop" /\ cell \in {"first", "resume"}
  /\ epoch_iter < NumEpochsOf(notebook)
  /\ \E b \in 0..(TrainBatches - 1) :
       /\ params' = IF b = 0 THEN params ELSE Uniform(nextVer + b - 1)
       /\ opt' = IF b = 0 THEN opt ELSE nextVer + b - 1
       /\ nextVer' = nextVer + b
       /\ grads' = IF b = 0 THEN grads ELSE "computed"
  /\ training' = TRUE
  /\ epoch' = epoch_iter /\ epoch_iter' = epoch_iter + 1
  /\ trained' = Append(trained, epoch_iter + 1)
  /\ Raise("FetchError")
  /\ UNCHANGED <<files, env_vars, runs, cell_vars, res_vars, writes, evaluated,
                 resumed>>

\* The loop of a training cell is over and the next cell starts: in the notebook that
\* has one, the cell that sets resume_checkpoint_path and the head of the resumable
\* cell; then the cell that calls test_model.
RunAllNextCell ==
  /\ pc = "loop" /\ cell \in {"first", "resume"}
  /\ epoch_iter >= NumEpochsOf(notebook)
  /\ IF cell = "first" /\ notebook = "BreastNetPP_GPU_Friendly.ipynb"
       THEN /\ resume_checkpoint_path' = RunAllResumePath
            /\ start_epoch' = 0 /\ best_val_acc' = Ratio(0, 1)
            /\ cell' = "resume" /\ pc' = "r_branch"
       ELSE /\ cell' = "test" /\ pc' = "x_call"
            /\ UNCHANGED <<resume_checkpoint_path, start_epoch, best_val_acc>>
  /\ runs' = runs + 1
  /\ trained' = <<>> /\ writes' = <<>> /\ resumed' = FALSE
  /\ UNCHANGED <<model_vars, files, env_vars, err, loaded_checkpoint, loop_vars,
                 res_vars, fn_vars, test_vars, evaluated>>

\* test_model(model, test_loader, path), the whole call.
RunAllTest ==
  /\ pc = "x_call"
  /\ IF FinalTestPath \notin DOMAIN files
       THEN /\ Raise("FileNotFoundError")
            /\ UNCHANGED <<params, training, report>>
       ELSE IF "model_state_dict" \notin DOMAIN files[FinalTestPath]
         THEN /\ Raise("KeyError")
              /\ UNCHANGED <<params, training, report>>
         ELSE LET p1 == LoadStateDict(params, files[FinalTestPath].model_state_dict)
              IN /\ params' = p1
                 /\ training' = FALSE
                 /\ report' = [acc |-> Ratio(Cardinality({j \in 1..TestLen :
                                   Pred(Prob(p1, ValLen + j)) = TestLabel(j)}),
                                 TestLen)]
                 /\ pc' = "idle" /\ cell' = "none" /\ err' = "none"
                 /\ DropLocals
  /\ UNCHANGED <<opt, grads, nextVer, files, valLabels, gate_vars, data_vars,
                 notebook, runs, cell_vars, loop_vars, res_vars, hist_vars>>

NextRunAll ==
  \/ RunAllEpoch \/ RunAllEpochFails \/ RunAllNextCell
  \/ ResumeBranch \/ ResumeLoopEnter
  \/ RunAllTest

SpecRunAll == InitRunAll /\ [][NextRunAll]_vars

\* C24: in each notebook, run top to bottom from an empty save directory, when
\* test_model is called the path it is given names a per-epoch checkpoint file that
\* the notebook's training loop writes, and the file exists.
C24_TestReadsTrainedFile ==
  (notebook \in Notebooks /\ pc = "x_call") =>
    /\ \E n \in 1..NumEpochsOf(notebook) : FinalTestPath = TrainFile(notebook, n)
    /\ FinalTestPath \in DOMAIN files
    /\ "epoch" \in DOMAIN files[FinalTestPath]

====
